---- MODULE Spec2Model ----
(***************************************************************************)
(* Model of Gyazo::upload (src/upload.rs): one call of the upload          *)
(* operation, from reading the image file to returning the decoded         *)
(* response, an error value, or panicking.                                 *)
(***************************************************************************)
EXTENDS Integers, Sequences, FiniteSets, TLC

(* ------------------------------------------------------------------ *)
(* Bounds                                                             *)
(* ------------------------------------------------------------------ *)

\* Longest image path, in bytes, handed to upload.
MaxPathLen == 2

(* ------------------------------------------------------------------ *)
(* Option<T>                                                          *)
(* ------------------------------------------------------------------ *)

None == [some |-> FALSE]

Some(v) == [some |-> TRUE, val |-> v]

OptionOf(S) == {None} \cup {Some(v) : v \in S}

(* ------------------------------------------------------------------ *)
(* Paths and strings                                                  *)
(* ------------------------------------------------------------------ *)

\* Bytes a path is made of: 97 is ASCII 'a', 255 (0xFF) occurs in no
\* UTF-8 encoding.
PathBytes == {97, 255}

Paths == UNION {[1..n -> PathBytes] : n \in 1..MaxPathLen}

\* Path::to_string_lossy in place of to_str: every invalid byte becomes
\* U+FFFD and the conversion never fails.
ToStrLossy(path) == Some([i \in 1..Len(path) |-> IF path[i] < 128 THEN path[i] ELSE 65533])

\* Path::to_str: Some(the path as a string) when the path is valid
\* Unicode, None otherwise.  Over PathBytes a path is valid UTF-8 exactly
\* when every byte is ASCII, and then its characters are its bytes.
ToStr(path) ==
    IF \A i \in 1..Len(path) : path[i] < 128
    THEN Some(path)
    ELSE None

Digit(d) ==
    CASE d = 0 -> "0" [] d = 1 -> "1" [] d = 2 -> "2" [] d = 3 -> "3"
      [] d = 4 -> "4" [] d = 5 -> "5" [] d = 6 -> "6" [] d = 7 -> "7"
      [] d = 8 -> "8" [] d = 9 -> "9"

RECURSIVE NatToString(_)
NatToString(n) ==
    IF n < 10 THEN Digit(n) ELSE NatToString(n \div 10) \o Digit(n % 10)

\* f64::to_string on a non-negative value whole + tenths/10: the shortest
\* decimal that round-trips, with no fractional part for an integral value.
F64ToString(x) ==
    IF x.tenths = 0
    THEN NatToString(x.whole)
    ELSE NatToString(x.whole) \o "." \o Digit(x.tenths)

\* bool::to_string
BoolToString(b) == IF b THEN "true" ELSE "false"

\* AccessPolicy::as_str
AccessPolicyAsStr(p) == IF p = "Anyone" THEN "anyone" ELSE "only_me"

(* ------------------------------------------------------------------ *)
(* GyazoUploadOptions                                                 *)
(* ------------------------------------------------------------------ *)

AccessPolicies == {"Anyone", "OnlyMe"}

CreatedAtValues == {[whole |-> 1700000000, tenths |-> 0], [whole |-> 12, tenths |-> 5]}

GyazoUploadOptions ==
    [access_policy      : OptionOf(AccessPolicies),
     metadata_is_public : OptionOf(BOOLEAN),
     referer_url        : OptionOf({"https://example.com"}),
     app                : OptionOf({"Firefox"}),
     title              : OptionOf({"A title"}),
     desc               : OptionOf({"A comment"}),
     created_at         : OptionOf(CreatedAtValues),
     collection_id      : OptionOf({"c0ffee"})]

(* ------------------------------------------------------------------ *)
(* multipart::Form                                                    *)
(* ------------------------------------------------------------------ *)

\* Form::text(name, value): one text part.
Text(name, value) == [name |-> name, kind |-> "text", text |-> value]

\* Form::part(name, Part::bytes(content).file_name(file_name))
FilePart(name, content, file_name) ==
    [name |-> name, kind |-> "file", bytes |-> content, file_name |-> file_name]

\* `if let Some(v) = field { form = form.text(name, render(v)) }`
OptText(field, name, rendered) ==
    IF field.some THEN <<Text(name, rendered)>> ELSE <<>>

\* OptionParts with the desc branch writing under the title field's name.
OptionPartsDescAsTitle(options) ==
    IF options.some
    THEN LET opts == options.val IN
             OptText(opts.access_policy, "access_policy",
                     AccessPolicyAsStr(opts.access_policy.val))
          \o OptText(opts.metadata_is_public, "metadata_is_public",
                     BoolToString(opts.metadata_is_public.val))
          \o OptText(opts.referer_url, "referer_url", opts.referer_url.val)
          \o OptText(opts.app, "app", opts.app.val)
          \o OptText(opts.title, "title", opts.title.val)
          \o OptText(opts.desc, "title", opts.desc.val)
          \o OptText(opts.created_at, "created_at",
                     F64ToString(opts.created_at.val))
          \o OptText(opts.collection_id, "collection_id", opts.collection_id.val)
    ELSE <<>>

\* The text parts appended for the populated options, in source order.
OptionParts(options) ==
    IF options.some
    THEN LET opts == options.val IN
             OptText(opts.access_policy, "access_policy",
                     AccessPolicyAsStr(opts.access_policy.val))
          \o OptText(opts.metadata_is_public, "metadata_is_public",
                     BoolToString(opts.metadata_is_public.val))
          \o OptText(opts.referer_url, "referer_url", opts.referer_url.val)
          \o OptText(opts.app, "app", opts.app.val)
          \o OptText(opts.title, "title", opts.title.val)
          \o OptText(opts.desc, "desc", opts.desc.val)
          \o OptText(opts.created_at, "created_at",
                     F64ToString(opts.created_at.val))
          \o OptText(opts.collection_id, "collection_id", opts.collection_id.val)
    ELSE <<>>

\* The form before the options are looked at.
BaseForm(token, content, file_name) ==
    <<Text("access_token", token), FilePart("imagedata", content, file_name)>>

(* ------------------------------------------------------------------ *)
(* UploadResponse and its JSON deserialization                        *)
(* ------------------------------------------------------------------ *)

\* The fields of UploadResponse, in declaration order (r#type is the JSON
\* key "type").
FieldNames == <<"created_at", "image_id", "permalink_url", "thumb_url", "type", "url">>

FieldSet == {FieldNames[i] : i \in 1..Len(FieldNames)}

JString(s) == [t |-> "string", s |-> s]

JNumber(n) == [t |-> "number", n |-> n]

JObject(members) == [t |-> "object", members |-> members]

JArray(elems) == [t |-> "array", elems |-> elems]

IsJString(v) == v.t = "string"

\* The struct built from six strings given in declaration order.
UploadResponse(vals) ==
    [created_at    |-> vals[1],
     image_id      |-> vals[2],
     permalink_url |-> vals[3],
     thumb_url     |-> vals[4],
     type          |-> vals[5],
     url           |-> vals[6]]

\* FromJson as if every field were #[serde(default)]: a missing key of an
\* object becomes the empty string.
FromJsonDefault(body) ==
    CASE body.t = "object" ->
           IF \A i \in 1..Len(FieldNames) :
                  FieldNames[i] \in DOMAIN body.members
                      => IsJString(body.members[FieldNames[i]])
           THEN [ok |-> TRUE,
                 val |-> UploadResponse([i \in 1..Len(FieldNames) |->
                            IF FieldNames[i] \in DOMAIN body.members
                            THEN body.members[FieldNames[i]].s
                            ELSE ""])]
           ELSE [ok |-> FALSE]
      [] OTHER -> [ok |-> FALSE]

\* FromJson with thumb_url and url renamed onto each other's keys.
FromJsonSwapped(body) ==
    CASE body.t = "object" ->
           IF \A i \in 1..Len(FieldNames) :
                  /\ FieldNames[i] \in DOMAIN body.members
                  /\ IsJString(body.members[FieldNames[i]])
           THEN [ok |-> TRUE,
                 val |-> UploadResponse([i \in 1..Len(FieldNames) |->
                            body.members[FieldNames[CASE i = 4 -> 6 [] i = 6 -> 4
                                                      [] OTHER -> i]].s])]
           ELSE [ok |-> FALSE]
      [] OTHER -> [ok |-> FALSE]

\* serde's derived Deserialize for UploadResponse, driven by serde_json:
\* a JSON object needs every field as a key with a string value (unknown
\* keys are ignored); a JSON array needs exactly the six strings in
\* declaration order; anything else, malformed text included, is an error.
FromJson(body) ==
    CASE body.t = "object" ->
           IF \A i \in 1..Len(FieldNames) :
                  /\ FieldNames[i] \in DOMAIN body.members
                  /\ IsJString(body.members[FieldNames[i]])
           THEN [ok |-> TRUE,
                 val |-> UploadResponse([i \in 1..Len(FieldNames) |->
                                            body.members[FieldNames[i]].s])]
           ELSE [ok |-> FALSE]
      [] body.t = "array" ->
           IF /\ Len(body.elems) = Len(FieldNames)
              /\ \A i \in 1..Len(body.elems) : IsJString(body.elems[i])
           THEN [ok |-> TRUE,
                 val |-> UploadResponse([i \in 1..Len(FieldNames) |-> body.elems[i].s])]
           ELSE [ok |-> FALSE]
      [] OTHER -> [ok |-> FALSE]

(* ------------------------------------------------------------------ *)
(* Responses the remote service can give                              *)
(* ------------------------------------------------------------------ *)

CompleteMembers ==
    [k \in FieldSet |->
        CASE k = "created_at"    -> JString("2024-05-01T10:00:00+0000")
          [] k = "image_id"      -> JString("8980c52421e452ac3355ca3e5cfe7a0c")
          [] k = "permalink_url" -> JString("https://gyazo.com/8980c524")
          [] k = "thumb_url"     -> JString("https://thumb.gyazo.com/thumb/8980c524.png")
          [] k = "type"          -> JString("png")
          [] k = "url"           -> JString("https://i.gyazo.com/8980c524.png")]

BlankMembers == [k \in FieldSet |-> JString("")]

Without(members, k) == [j \in (DOMAIN members) \ {k} |-> members[j]]

With(members, k, v) == [j \in (DOMAIN members) \cup {k} |-> IF j = k THEN v ELSE members[j]]

CompleteArray == [i \in 1..Len(FieldNames) |-> CompleteMembers[FieldNames[i]]]

Bodies ==
       {[t |-> "malformed"], [t |-> "unreadable"], [t |-> "null"]}
  \cup {JObject(CompleteMembers), JObject(BlankMembers)}
  \cup {JObject(With(CompleteMembers, "star", JNumber(1)))}
  \cup {JObject(Without(CompleteMembers, k)) : k \in FieldSet}
  \cup {JObject(With(CompleteMembers, k, JNumber(7))) : k \in {"created_at", "image_id"}}
  \cup {JArray(CompleteArray), JArray(SubSeq(CompleteArray, 1, 5))}

StatusCodes == {200, 201, 304, 401, 500}

Responses == [status : StatusCodes, body : Bodies]

\* StatusCode::is_success
IsSuccess(status) == status >= 200 /\ status < 300

\* StatusCode::is_client_error
IsClientError(status) == status >= 400 /\ status < 500

\* StatusCode::is_server_error
IsServerError(status) == status >= 500 /\ status < 600

(* ------------------------------------------------------------------ *)
(* State                                                              *)
(* ------------------------------------------------------------------ *)

VARIABLES
    pc,            \* position in upload: start, build, send, status, json, done
    image_path,    \* argument image_path
    options,       \* argument options: Option<&GyazoUploadOptions>
    access_token,  \* self.access_token
    fs,            \* what fs::read(image_path) finds: Some(bytes) or None
    file_content,  \* local file_content, None until read
    form,          \* local form, None until built
    requests,      \* the requests handed to the client, in order
    response,      \* the response received, None until then
    result         \* how the call ended

vars == <<pc, image_path, options, access_token, fs, file_content, form,
          requests, response, result>>

UploadUrl == "https://upload.gyazo.com/api/upload"

Ok(v) == [kind |-> "ok", val |-> v]

\* Err(reqwest::Error): kind is what is_request/is_body/is_status/is_decode
\* tell apart, status is Error::status().
Err(kind, status) == [kind |-> "err", err |-> [kind |-> kind, status |-> status]]

Panic(msg) == [kind |-> "panic", msg |-> msg]

Init ==
    /\ pc = "start"
    /\ image_path \in Paths
    /\ options \in OptionOf(GyazoUploadOptions)
    /\ access_token = "token"
    /\ fs \in OptionOf({<<137, 80, 78, 71>>})
    /\ file_content = None
    /\ form = None
    /\ requests = <<>>
    /\ response = None
    /\ result = [kind |-> "none"]

\* ReadFile with unwrap_or_default() in place of expect(): a failed read
\* yields empty content and the call goes on.
ReadFileOrDefault ==
    /\ pc = "start"
    /\ file_content' = IF fs.some THEN Some(fs.val) ELSE Some(<<>>)
    /\ pc' = "build"
    /\ UNCHANGED <<image_path, options, access_token, fs, form, requests, response, result>>

\* let file_content = fs::read(&image_path).expect("Failed to read the file");
ReadFile ==
    /\ pc = "start"
    /\ IF fs.some
       THEN /\ file_content' = Some(fs.val)
            /\ pc' = "build"
            /\ UNCHANGED result
       ELSE /\ result' = Panic("Failed to read the file")
            /\ pc' = "done"
            /\ UNCHANGED file_content
    /\ UNCHANGED <<image_path, options, access_token, fs, form, requests, response>>

\* The form is built: access_token, imagedata with the path as file name
\* (to_str().unwrap() panics on None), then the populated options.
BuildForm ==
    /\ pc = "build"
    /\ IF ToStr(image_path).some
       THEN /\ form' = Some(BaseForm(access_token, file_content.val, ToStr(image_path).val)
                            \o OptionParts(options))
            /\ pc' = "send"
            /\ UNCHANGED result
       ELSE /\ result' = Panic("called Option::unwrap() on a None value")
            /\ pc' = "done"
            /\ UNCHANGED form
    /\ UNCHANGED <<image_path, options, access_token, fs, file_content, requests, response>>

\* client.post(url).multipart(form).send().await? : the request goes out
\* once; either the transport fails or a response arrives.
Send ==
    /\ pc = "send"
    /\ requests' = Append(requests, [method |-> "POST", url |-> UploadUrl, form |-> form.val])
    /\ \/ /\ result' = Err("request", None)
          /\ pc' = "done"
          /\ UNCHANGED response
       \/ \E r \in Responses :
             /\ response' = Some(r)
             /\ pc' = "status"
             /\ UNCHANGED result
    /\ UNCHANGED <<image_path, options, access_token, fs, file_content, form>>

\* .error_for_status()? : a 4xx or 5xx status becomes an error carrying it.
ErrorForStatus ==
    /\ pc = "status"
    /\ IF IsClientError(response.val.status) \/ IsServerError(response.val.status)
       THEN /\ result' = Err("status", Some(response.val.status))
            /\ pc' = "done"
       ELSE /\ pc' = "json"
            /\ UNCHANGED result
    /\ UNCHANGED <<image_path, options, access_token, fs, file_content, form,
                   requests, response>>

\* .json::<UploadResponse>().await? ; Ok(response)
Json ==
    /\ pc = "json"
    /\ result' = IF response.val.body.t = "unreadable"
                 THEN Err("body", None)
                 ELSE IF FromJson(response.val.body).ok
                      THEN Ok(FromJson(response.val.body).val)
                      ELSE Err("decode", None)
    /\ pc' = "done"
    /\ UNCHANGED <<image_path, options, access_token, fs, file_content, form,
                   requests, response>>

Next == ReadFile \/ BuildForm \/ Send \/ ErrorForStatus \/ Json

Spec == Init /\ [][Next]_vars

(* ------------------------------------------------------------------ *)
(* Properties                                                         *)
(* ------------------------------------------------------------------ *)

OptionNames ==
    {"access_policy", "metadata_is_public", "referer_url", "app", "title",
     "desc", "created_at", "collection_id"}

\* The option named n was populated by the caller.
Populated(n) == options.some /\ options.val[n].some

\* Number of parts of form f called n.
CountNamed(f, n) == Cardinality({i \in 1..Len(f) : f[i].name = n})

\* Number of parts of form f called n and of kind k.
CountKind(f, n, k) == Cardinality({i \in 1..Len(f) : f[i].name = n /\ f[i].kind = k})

Done == pc = "done"

HasResponse == response.some

\* The path has no byte that is invalid in UTF-8.
PathIsUnicode == \A i \in 1..Len(image_path) : image_path[i] # 255

\* The body is a JSON object with all six fields as strings.
CompleteBody(body) ==
    /\ body.t = "object"
    /\ \A k \in FieldSet : k \in DOMAIN body.members /\ body.members[k].t = "string"

\* C1: whatever subset of the eight options is populated (none, or no
\* options object at all, included), the built form has exactly one
\* access_token text field, one imagedata file part, and one text field per
\* populated option under its fixed name; nothing appears for an option
\* that is not populated, and a boolean is rendered as true or false.
C1_FormHasExactlyPopulatedFields ==
    form.some =>
        LET f == form.val IN
        /\ CountNamed(f, "access_token") = 1
        /\ CountKind(f, "access_token", "text") = 1
        /\ CountNamed(f, "imagedata") = 1
        /\ CountKind(f, "imagedata", "file") = 1
        /\ \A n \in OptionNames :
              /\ CountNamed(f, n) = IF Populated(n) THEN 1 ELSE 0
              /\ CountKind(f, n, "text") = CountNamed(f, n)
        /\ \A i \in 1..Len(f) : f[i].name \in OptionNames \cup {"access_token", "imagedata"}
        /\ \A i \in 1..Len(f) :
              f[i].name = "metadata_is_public" =>
                  f[i].text = IF options.val.metadata_is_public.val THEN "true" ELSE "false"

C1_Witness ==
    /\ form.some
    /\ options.some
    /\ options.val.metadata_is_public = Some(FALSE)
    /\ options.val.desc.some
    /\ ~options.val.title.some
    /\ Len(form.val) > 3

\* C2: when the file cannot be read, upload ends by returning a
\* FileReadError value to the caller, not by aborting.
C2_ReadFailureReturnsError ==
    (Done /\ ~fs.some) => (result.kind = "err" /\ result.err.kind = "file_read")

\* C3: when reading the file fails no request is ever issued, and a request
\* is issued only after the file was read successfully.
C3_NoRequestWithoutRead ==
    /\ ~fs.some => requests = <<>>
    /\ requests # <<>> => (fs.some /\ file_content = Some(fs.val))

C3_Witness == Done /\ ~fs.some /\ requests = <<>> /\ ~form.some

\* C4: for every response whose status is not 2xx, upload returns an error
\* carrying that status, returns no result and does not decode the body.
C4_NonSuccessIsStatusError ==
    (Done /\ HasResponse /\ ~IsSuccess(response.val.status)) =>
        /\ result.kind = "err"
        /\ result.err.kind = "status"
        /\ result.err.status = Some(response.val.status)

\* C5: for every 2xx response whose body is malformed JSON or a JSON object
\* missing one of the six required fields, upload returns a decode error
\* and no result.
C5_BadBodyIsDecodeError ==
    (/\ Done
     /\ HasResponse
     /\ IsSuccess(response.val.status)
     /\ \/ response.val.body.t = "malformed"
        \/ /\ response.val.body.t = "object"
           /\ \E k \in FieldSet : k \notin DOMAIN response.val.body.members)
    => (result.kind = "err" /\ result.err.kind = "decode")

C5_Witness ==
    /\ Done
    /\ HasResponse
    /\ response.val.status = 200
    /\ response.val.body.t = "object"
    /\ "image_id" \notin DOMAIN response.val.body.members
    /\ result.kind = "err"

\* C6: for every 2xx response whose body is a complete JSON object with the
\* six string fields, upload returns a result whose six fields equal the
\* body's, untransformed.
C6_CompleteBodyRoundTrips ==
    (Done /\ HasResponse /\ IsSuccess(response.val.status) /\ CompleteBody(response.val.body))
    => /\ result.kind = "ok"
       /\ DOMAIN result.val = FieldSet
       /\ \A k \in FieldSet : result.val[k] = response.val.body.members[k].s

C6_Witness ==
    /\ Done
    /\ HasResponse
    /\ response.val.status = 201
    /\ response.val.body = JObject(CompleteMembers)
    /\ result.kind = "ok"

\* C7: each failure mode (file unreadable, transport failure, non-success
\* status, decode failure) reaches the caller as an error value whose kind
\* tells the four apart; none becomes a success or is swallowed.
C7_FailuresAreDistinctErrors ==
    Done =>
        /\ ~fs.some => (result.kind = "err" /\ result.err.kind = "file_read")
        /\ (requests # <<>> /\ ~HasResponse) =>
               (result.kind = "err" /\ result.err.kind = "request")
        /\ (HasResponse /\ ~IsSuccess(response.val.status)) =>
               (result.kind = "err" /\ result.err.kind = "status")
        /\ (HasResponse /\ IsSuccess(response.val.status)
              /\ response.val.body.t \in {"malformed", "null"}) =>
               (result.kind = "err" /\ result.err.kind = "decode")

\* C8: a call that returns gives either a result with all six fields taken
\* from the response or an error; a result is returned only when the file
\* was read, the request was sent, the status was 2xx and the body decoded.
C8_SuccessOnlyAfterEveryStep ==
    (Done /\ result.kind \in {"ok", "err"}) =>
        /\ result.kind = "ok" =>
              /\ fs.some
              /\ Len(requests) = 1
              /\ HasResponse
              /\ IsSuccess(response.val.status)
              /\ DOMAIN result.val = FieldSet
              /\ response.val.body.t \in {"object", "array"}

\* C9: one call issues at most one request, exactly one when the file was
\* read successfully, and none after a failure.
C9_ExactlyOneRequestAfterRead ==
    /\ Len(requests) <= 1
    /\ (Done /\ fs.some) => Len(requests) = 1

====
